---- MODULE Spec2Model ----
(***************************************************************************)
(* Model of qctoolkit/hardware/awgs/tektronix.py: the WaveformStorage      *)
(* (name <-> payload store) and the TektronixAWG driver that mirrors the   *)
(* device's waveform catalog and sequence table.                           *)
(*                                                                         *)
(* Conventions.  A Python dict is a TLA+ function whose DOMAIN is the key  *)
(* set.  Python's None is the string "None" where a string or an           *)
(* exception is expected, NoPosition (0) where a 1-based position or a     *)
(* count is expected, and NoneElement where a sequence element is          *)
(* expected.  A method is an operator from the state before the call (a    *)
(* record) to the state after it; the field exc of the result names the    *)
(* exception the call raised ("None" when it returned).                    *)
(***************************************************************************)
EXTENDS Integers, Sequences, FiniteSets, TLC

VARIABLES
    storage,            \* a WaveformStorage object on its own (its two dicts)
    storage_call,       \* the last call made on `storage` and its outcome
    device_waveforms,   \* the instrument's waveform list: [name, waveform, timestamp], in its order
    device_sequence,    \* the instrument's sequence table (rows, 1-based)
    manual_cleanup,     \* constructor argument manual_cleanup
    waveforms,          \* TektronixAWG._waveforms (a WaveformStorage)
    sequence_entries,   \* TektronixAWG._sequence_entries (mirror of the table)
    programs,           \* TektronixAWG._programs (registry)
    idle_program,       \* TektronixAWG._idle_program
    armed_program,      \* TektronixAWG._armed_program
    cleanup_stack,      \* TektronixAWG._cleanup_stack (manual mode): pushed ExitStacks
    call                \* the last public call on the AWG and its outcome

vars == <<storage, storage_call, device_waveforms, device_sequence, manual_cleanup,
          waveforms, sequence_entries, programs, idle_program, armed_program,
          cleanup_stack, call>>

awg_vars == <<device_waveforms, device_sequence, manual_cleanup, waveforms,
              sequence_entries, programs, idle_program, armed_program,
              cleanup_stack, call>>

-----------------------------------------------------------------------------
(* Python values *)

None == "None"

NoPosition == 0

EmptyDict == [k \in {} |-> None]

DictSet(d, k, v) == [x \in (DOMAIN d) \cup {k} |-> IF x = k THEN v ELSE d[x]]

DictDel(d, k) == [x \in (DOMAIN d) \ {k} |-> d[x]]

Values(d) == {d[k] : k \in DOMAIN d}

-----------------------------------------------------------------------------
(* TekAwg.Waveform payloads and WaveformEntry *)

idle_value == 8191

idle_length == 4000

\* A TekAwg.Waveform whose channel array is np.full(size, fill); kind is the
\* Python type of the object handed in as a waveform ("ndarray": a bare,
\* unhashable array).
Waveform(fill, size, m1, m2) ==
    [kind |-> "Waveform", fill |-> fill, size |-> size, marker_1 |-> m1, marker_2 |-> m2]

make_idle_waveform(length) == Waveform(idle_value, length, 0, 0)

idle_pulse_name(idle_length_) == "idle_" \o ToString(idle_length_)

Hashable(waveform) == waveform.kind = "Waveform"

WaveformEntry(name, length, waveform, timestamp) ==
    [name |-> name, waveform |-> waveform, length |-> length, timestamp |-> timestamp]

NoEntry == WaveformEntry(None, 0, Waveform(0, 0, 0, 0), None)

-----------------------------------------------------------------------------
(* WaveformStorage *)

\* __init__: a dict comprehension keeps, for a key given several times, the
\* value given last.
WaveformStorage(wfs) ==
    [by_name |-> [n \in {wfs[i].name : i \in DOMAIN wfs} |->
                      wfs[CHOOSE i \in DOMAIN wfs :
                              /\ wfs[i].name = n
                              /\ \A j \in DOMAIN wfs : wfs[j].name = n => j <= i]],
     by_data |-> [w \in {wfs[i].waveform : i \in DOMAIN wfs} |->
                      wfs[CHOOSE i \in DOMAIN wfs :
                              /\ wfs[i].waveform = w
                              /\ \A j \in DOMAIN wfs : wfs[j].waveform = w => j <= i]]]

\* __len__ and __iter__ read _waveforms_by_data
StorageLen(st) == Cardinality(DOMAIN st.by_data)

StorageIter(st) == Values(st.by_data)

StoreResult(st, exc, ret) == [st |-> st, exc |-> exc, ret |-> ret]

pop_waveform(st, name) ==
    IF name \notin DOMAIN st.by_name
    THEN StoreResult(st, "KeyError", NoEntry)
    ELSE LET wf == st.by_name[name]
             st1 == [st EXCEPT !.by_name = DictDel(@, name)]
         IN  IF wf.waveform \notin DOMAIN st1.by_data
             THEN StoreResult(st1, "KeyError", NoEntry)
             ELSE StoreResult([st1 EXCEPT !.by_data = DictDel(@, wf.waveform)], None, wf)

\* Lines 62-63: the two dict assignments; hashing the key of the first can raise
\* (TypeError: unhashable type), and then nothing has been assigned.
StorageInsert(st, name, waveform_entry) ==
    IF ~Hashable(waveform_entry.waveform)
    THEN StoreResult(st, "TypeError", NoEntry)
    ELSE StoreResult([by_data |-> DictSet(st.by_data, waveform_entry.waveform, waveform_entry),
                      by_name |-> DictSet(st.by_name, name, waveform_entry)], None, NoEntry)

\* add_waveform as it would be without the collision check of lines 55-60: the
\* faulty variant C6's property is tested against.
add_waveform_unchecked(st, name, waveform_entry, overwrite) ==
    StorageInsert(st, name, waveform_entry)

RECURSIVE add_waveform(_, _, _, _)
add_waveform(st, name, waveform_entry, overwrite) ==
    IF name \in DOMAIN st.by_name
    THEN IF overwrite
         THEN LET popped == pop_waveform(st, name)
              IN  IF popped.exc # None
                  THEN popped
                  ELSE LET ins == StorageInsert(popped.st, name, waveform_entry)
                       IN  IF ins.exc = None
                           THEN ins     \* exit_stack.pop_all(): no callback runs
                           ELSE \* the callback re-adds the popped entry
                                StoreResult(add_waveform(ins.st, name, popped.ret, FALSE).st,
                                            ins.exc, NoEntry)
         ELSE StoreResult(st, "RuntimeError", NoEntry)
    ELSE StorageInsert(st, name, waveform_entry)

-----------------------------------------------------------------------------
(* TekAwg.SequenceEntry and the entries of a sequencing element *)

\* An entry of a sequencing element is a Python value of one of four types: a
\* record with the one field that names its type.
PyInt(n) == [int |-> n]

PyStr(name) == [str |-> name]

PyWaveform(waveform) == [waveform |-> waveform]

PyEntry(wf) == [entry |-> wf]

IsInt(x) == DOMAIN x = {"int"}

IsStr(x) == DOMAIN x = {"str"}

IsWaveform(x) == DOMAIN x = {"waveform"}

SequenceEntry(entries, wait, loop_inf, loop_count, goto_ind, goto_state, jmp_type, jmp_ind) ==
    [entries |-> entries, wait |-> wait, loop_inf |-> loop_inf, loop_count |-> loop_count,
     goto_ind |-> goto_ind, goto_state |-> goto_state, jmp_type |-> jmp_type,
     jmp_ind |-> jmp_ind]

NoneElement == [none |-> TRUE]

\* _armed_program is None
NoArmedProgram == <<>>

n_channels == 2

\* [x] * n
Repeat(x, n) == [i \in 1..n |-> x]

\* A row of the device table that holds nothing: every channel's waveform is ''.
BlankRow == SequenceEntry(Repeat(PyStr(""), n_channels), FALSE, FALSE, NoPosition,
                          NoPosition, FALSE, "OFF", NoPosition)

-----------------------------------------------------------------------------
(* The instrument (TekAwg.TekAwg), as the driver uses it.                   *)
(*                                                                          *)
(* A call on the driver is given a state record s: the device (dw, ds),     *)
(* the AWG object's fields (wf, se, programs, idle, armed, cstack), the     *)
(* callbacks of the ExitStack handed to _upload (cs), the device commands   *)
(* issued by the call so far (log), the pending exception (exc), the value  *)
(* returned (ret), the timestamp the device stamps new waveforms with (now) *)
(* and fail: how many more device commands succeed before one raises       *)
(* (-1: none raises).  A device command that raises changes nothing on the  *)
(* device.  A statement reached with an exception pending is not executed:  *)
(* every operator on s returns s as it is when Raised(s).                   *)

DeviceError == "DeviceError"

\* arg: the waveform name or the text of the command; index: its position or
\* length argument
Command(cmd, arg, index, ok) == [cmd |-> cmd, arg |-> arg, index |-> index, ok |-> ok]

\* An exception is propagating.
Raised(s) == s.exc # None

\* The device command issued next raises.
Fails(s) == s.fail = 0

\* The command is carried out: it is reached and does not raise.
Done(s) == ~Raised(s) /\ ~Fails(s)

IssueIndexed(s, cmd, arg, index) ==
    IF Raised(s) THEN s
    ELSE [s EXCEPT !.log = Append(@, Command(cmd, arg, index, ~Fails(s))),
                   !.exc = IF Fails(s) THEN DeviceError ELSE @,
                   !.fail = IF @ > 0 THEN @ - 1 ELSE -1]

Issue(s, cmd, arg) == IssueIndexed(s, cmd, arg, NoPosition)

Raise(s, exc) == IF Raised(s) THEN s ELSE [s EXCEPT !.exc = exc]

Return(s, ret) == IF Raised(s) THEN s ELSE [s EXCEPT !.ret = ret]

\* The instrument's waveform list dw holds one [name, waveform, timestamp] per
\* name, in the order the instrument lists them.
CatalogNames(dw) == {dw[i].name : i \in DOMAIN dw}

CatalogGet(dw, name) == dw[CHOOSE i \in DOMAIN dw : dw[i].name = name]

CatalogPut(dw, item) ==
    IF item.name \in CatalogNames(dw)
    THEN [i \in DOMAIN dw |-> IF dw[i].name = item.name THEN item ELSE dw[i]]
    ELSE Append(dw, item)

CatalogDel(dw, name) == SelectSeq(dw, LAMBDA item : item.name # name)

\* device.new_waveform(name, data): creates or overwrites the named waveform
new_waveform(s, name, data) ==
    [Issue(s, "new_waveform", name) EXCEPT
        !.dw = IF Done(s)
               THEN CatalogPut(@, [name |-> name, waveform |-> data, timestamp |-> s.now])
               ELSE @]

\* device.del_waveform(name)
del_waveform(s, name) ==
    [Issue(s, "del_waveform", name) EXCEPT
        !.dw = IF Done(s) THEN CatalogDel(@, name) ELSE @]

\* device.get_waveform_timestamps(name): raises for a name the device does not hold
get_waveform_timestamps(s, name) ==
    [Issue(s, "get_waveform_timestamps", name) EXCEPT
        !.ret = IF Done(s) /\ name \in CatalogNames(s.dw)
                THEN CatalogGet(s.dw, name).timestamp ELSE @,
        !.exc = IF Done(s) /\ name \notin CatalogNames(s.dw) THEN DeviceError ELSE @]

\* device.set_seq_length(n): new rows are blank, rows beyond n are dropped
set_seq_length(s, n) ==
    [IssueIndexed(s, "set_seq_length", None, n) EXCEPT
        !.ds = IF ~Done(s) THEN @
               ELSE IF n <= Len(@) THEN SubSeq(@, 1, n)
               ELSE @ \o Repeat(BlankRow, n - Len(@))]

\* device.set_seq_element(index, element): the row must exist
set_seq_element(s, index, element) ==
    [IssueIndexed(s, "set_seq_element", None, index) EXCEPT
        !.ds = IF Done(s) /\ index \in DOMAIN @ THEN [@ EXCEPT ![index] = element] ELSE @,
        !.exc = IF Done(s) /\ index \notin DOMAIN s.ds THEN DeviceError ELSE @]

\* device.get_amplitude() and device.get_freq(): queries
get_amplitude(s) == Issue(s, "get_amplitude", None)

get_freq(s) == Issue(s, "get_freq", None)

-----------------------------------------------------------------------------
(* TektronixAWG: allocation, waveform and row upload *)

\* alloc is history: the argument and the outcome of the call's last allocation
\* (what it returned, the mirror and the device table right before and right
\* after it, the device commands it issued).
NoAllocation == [length |-> -1]

Allocation(s, length, t, ret) ==
    [length |-> length, ret |-> IF Raised(t) THEN <<>> ELSE ret, se_before |-> s.se,
     ds_before |-> s.ds, se_after |-> t.se, ds_after |-> t.ds, exc |-> t.exc,
     commands |-> SubSeq(t.log, Len(s.log) + 1, Len(t.log))]

\* Line 507: the mirror grows by the rows the device has been given
ExtendEntries(t, n_missing) ==
    IF Raised(t) THEN t ELSE [t EXCEPT !.se = @ \o Repeat(NoneElement, n_missing)]

\* Line 509, and the record of the allocation; t: the state the body has left
ReturnPositions(s, length, t, free_positions) ==
    [Return(t, free_positions) EXCEPT !.alloc = Allocation(s, length, t, free_positions)]

\* _get_empty_sequence_positions as it would be if it extended the table by
\* `length` rows instead of by the shortfall: the faulty variant C10's property
\* is tested against.
_get_empty_sequence_positions_by_length(s, length) ==
    LET free_positions == SelectSeq([i \in 1..Len(s.se) |-> i],
                                    LAMBDA i : s.se[i] = NoneElement)
        missing == [i \in 1..length |-> Len(s.se) + i]
    IN  IF Raised(s) THEN s
        ELSE IF length > Len(free_positions)
        THEN ReturnPositions(s, length,
                             ExtendEntries(set_seq_length(s, Len(s.se) + length), length),
                             free_positions \o missing)
        ELSE ReturnPositions(s, length, s, free_positions)

\* An allocation that hands out the first `length` positions, free or not
_get_empty_sequence_positions_from_first(s, length) ==
    IF Raised(s) THEN s
    ELSE IF length > Len(s.se)
    THEN ReturnPositions(s, length,
                         ExtendEntries(set_seq_length(s, length), length - Len(s.se)),
                         [i \in 1..length |-> i])
    ELSE ReturnPositions(s, length, s, [i \in 1..length |-> i])

_get_empty_sequence_positions(s, length) ==
    LET free_positions == SelectSeq([i \in 1..Len(s.se) |-> i],
                                    LAMBDA i : s.se[i] = NoneElement)
        n_missing == IF length - Len(free_positions) > 0
                     THEN length - Len(free_positions) ELSE 0
        missing == [i \in 1..n_missing |-> Len(s.se) + i]
    IN  IF Raised(s) THEN s
        ELSE IF n_missing > 0
        THEN ReturnPositions(s, length,
                             ExtendEntries(set_seq_length(s, Len(s.se) + n_missing), n_missing),
                             free_positions \o missing)
        ELSE ReturnPositions(s, length, s, free_positions)

\* WaveformStorage's outcome (the store it leaves, what it raised) in the state
StorageOutcome(t, result) ==
    [t EXCEPT !.wf = result.st, !.exc = result.exc]

\* Lines 513-514
PopIfKnown(t, waveform_name) ==
    IF Raised(t) \/ waveform_name \notin DOMAIN t.wf.by_name THEN t
    ELSE StorageOutcome(t, pop_waveform(t.wf, waveform_name))

_delete_waveform(s, waveform_name) ==
    PopIfKnown(del_waveform(s, waveform_name), waveform_name)

\* Lines 518-519; with_cleanup: cleanup_stack is an ExitStack (not None)
RegisterCallback(t, waveform_name, with_cleanup) ==
    IF Raised(t) \/ ~with_cleanup THEN t ELSE [t EXCEPT !.cs = Append(@, waveform_name)]

\* Lines 521-525; t.ret is the timestamp read at line 520
AddEntry(t, waveform_data, waveform_name) ==
    IF Raised(t) THEN t
    ELSE StorageOutcome(t, add_waveform(t.wf, waveform_name,
                                        WaveformEntry(waveform_name, waveform_data.size,
                                                      waveform_data, t.ret),
                                        FALSE))

_upload_waveform(s, waveform_data, waveform_name, with_cleanup) ==
    AddEntry(get_waveform_timestamps(
                 RegisterCallback(new_waveform(s, waveform_name, waveform_data),
                                  waveform_name, with_cleanup),
                 waveform_name),
             waveform_data, waveform_name)

\* Line 528 raises IndexError for a position beyond the mirror
_upload_sequencing_element(s, element_index, sequencing_element) ==
    IF Raised(s) THEN s
    ELSE IF element_index \notin DOMAIN s.se
    THEN Raise(s, "IndexError")
    ELSE set_seq_element([s EXCEPT !.se[element_index] = sequencing_element],
                         element_index, sequencing_element)

-----------------------------------------------------------------------------
(* TektronixAWG._process_program *)

\* The loop's variables: waveforms_to_upload (a dict, kept in insertion order as
\* a sequence of [data, name]), required_idle_pulses, the new_entries of the
\* element at hand, the sequencing_elements made so far.
ProcessStart ==
    [waveforms_to_upload |-> <<>>, required_idle_pulses |-> EmptyDict,
     new_entries |-> <<>>, sequencing_elements |-> <<>>, exc |-> None]

\* A name taken over as it is, known to the store or not
ProcessName_unchecked(acc, store, entry) ==
    [acc EXCEPT !.new_entries = Append(@, entry)]

\* Lines 421-423: an entry that is a device name is looked up in the store
ProcessName(acc, store, entry) ==
    IF entry.str \notin DOMAIN store.by_name
    THEN [acc EXCEPT !.exc = "KeyError"]
    ELSE [acc EXCEPT !.new_entries = Append(@, PyStr(store.by_name[entry.str].name))]

\* Lines 392-425, one entry of one element.
ProcessEntry(acc, store, entry) ==
    IF IsInt(entry)
    THEN IF entry.int \in DOMAIN acc.required_idle_pulses
         THEN [acc EXCEPT !.new_entries = Append(@, acc.required_idle_pulses[entry.int])]
         ELSE LET wf_data == make_idle_waveform(entry.int)
                  in_store == wf_data \in DOMAIN store.by_data
                  \* line 402 binds the stored WaveformEntry, not its name
                  wf_name == IF in_store THEN PyEntry(store.by_data[wf_data])
                             ELSE PyStr(idle_pulse_name(entry.int))
              IN  [acc EXCEPT
                       !.waveforms_to_upload =
                           IF in_store THEN @
                           ELSE Append(@, [data |-> wf_data,
                                           name |-> idle_pulse_name(entry.int)]),
                       !.required_idle_pulses = DictSet(@, entry.int, wf_name),
                       !.new_entries = Append(@, wf_name)]
    ELSE IF IsWaveform(entry)
    THEN \* line 411 evaluates by_data[entry] (KeyError when absent) and then
         \* `entry in <WaveformEntry>` (TypeError: not a container)
         IF entry.waveform \notin DOMAIN store.by_data
         THEN [acc EXCEPT !.exc = "KeyError"]
         ELSE [acc EXCEPT !.exc = "TypeError"]
    ELSE ProcessName(acc, store, entry)

RECURSIVE ProcessEntries(_, _, _, _)
ProcessEntries(acc, store, entries, i) ==
    IF acc.exc # None \/ i > Len(entries) THEN acc
    ELSE ProcessEntries(ProcessEntry(acc, store, entries[i]), store, entries, i + 1)

RECURSIVE ProcessElements(_, _, _, _)
ProcessElements(acc, store, elements, j) ==
    IF acc.exc # None \/ j > Len(elements) THEN acc
    ELSE LET a == ProcessEntries([acc EXCEPT !.new_entries = <<>>], store,
                                 elements[j].entries, 1)
         IN  ProcessElements(
                 IF a.exc # None THEN a
                 ELSE [a EXCEPT !.sequencing_elements =
                                    Append(@, [elements[j] EXCEPT !.entries = a.new_entries])],
                 store, elements, j + 1)

\* tek_program: the value of TektronixProgram.get_sequencing_elements()
_process_program(store, name, tek_program) ==
    ProcessElements(ProcessStart, store, tek_program, 1)


-----------------------------------------------------------------------------
(* TektronixAWG._upload and upload *)

\* qctoolkit.utils.pairwise(iterable, fillvalue=...): (s0,s1), (s1,s2), ...,
\* the last element paired with fillvalue.
pairwise(positions, fillvalue) ==
    [i \in 1..Len(positions) |->
        <<positions[i], IF i < Len(positions) THEN positions[i + 1] ELSE fillvalue>>]

\* Lines 481-484
RECURSIVE UploadWaveforms(_, _, _)
UploadWaveforms(s, waveforms_to_upload, i) ==
    IF Raised(s) \/ i > Len(waveforms_to_upload) THEN s
    ELSE UploadWaveforms(_upload_waveform(s, waveforms_to_upload[i].data,
                                          waveforms_to_upload[i].name, TRUE),
                         waveforms_to_upload, i + 1)

\* The loop body as it would be with the test of line 491 left out: the faulty
\* variant C11's property is tested against.
Linked_unconditionally(sequencing_element, element_index, next_element) ==
    [sequencing_element EXCEPT !.goto_ind = next_element, !.goto_state = TRUE]

\* Lines 491-493: the branch given to an element before it is written
Linked(sequencing_element, element_index, next_element) ==
    IF element_index + 1 # next_element
    THEN [sequencing_element EXCEPT !.goto_ind = next_element, !.goto_state = TRUE]
    ELSE sequencing_element

\* Lines 487-495: zip() stops at the shorter of the pairs and the elements; ret
\* holds the elements as the loop has left them.
RECURSIVE UploadElements(_, _, _, _)
UploadElements(s, pairs, sequencing_elements, i) ==
    IF Raised(s) THEN s
    ELSE IF i > Len(pairs) \/ i > Len(sequencing_elements)
    THEN Return(s, sequencing_elements)
    ELSE IF pairs[i][2] = NoPosition
    THEN Raise(s, "AssertionError")
    ELSE UploadElements(
             _upload_sequencing_element(
                 s, pairs[i][1], Linked(sequencing_elements[i], pairs[i][1], pairs[i][2])),
             pairs,
             [sequencing_elements EXCEPT
                  ![i] = Linked(sequencing_elements[i], pairs[i][1], pairs[i][2])],
             i + 1)

\* Line 497; e: the state the loop has left, e.ret the elements as written
Register(e, name, tek_program, positions) ==
    IF Raised(e) THEN e
    ELSE [e EXCEPT !.programs =
              DictSet(@, name, [positions |-> positions, tek_program |-> tek_program,
                                sequencing_elements |-> e.ret])]

\* Lines 487-497; g: the state line 486 has left, g.ret the positions
UploadSequence(g, name, tek_program, sequencing_elements) ==
    Register(UploadElements(g, pairwise(g.ret, g.idle), sequencing_elements, 1),
             name, tek_program, g.ret)

\* Lines 481-497 with the rows written before the waveforms are staged
UploadProcessed_rows_first(s, name, tek_program, processed) ==
    IF processed.exc # None THEN Raise(s, processed.exc)
    ELSE UploadWaveforms(
             UploadSequence(
                 _get_empty_sequence_positions(s, Len(processed.sequencing_elements)),
                 name, tek_program, processed.sequencing_elements),
             processed.waveforms_to_upload, 1)

\* Lines 481-497; processed: what _process_program returned or raised
UploadProcessed(s, name, tek_program, processed) ==
    IF processed.exc # None THEN Raise(s, processed.exc)
    ELSE UploadSequence(
             _get_empty_sequence_positions(
                 UploadWaveforms(s, processed.waveforms_to_upload, 1),
                 Len(processed.sequencing_elements)),
             name, tek_program, processed.sequencing_elements)

\* Lines 479-497, given the compiled program
UploadCompiled(s, name, tek_program) ==
    IF Raised(s) THEN s
    ELSE UploadProcessed(s, name, tek_program, _process_program(s.wf, name, tek_program))

\* A program (qctoolkit.hardware.program.Loop) as the compiler sees it: its
\* leaves in order, its depth, and whether the in-place compatibility pass has
\* been run on it.
Loop(leaves, depth, compatible) ==
    [leaves |-> leaves, depth |-> depth, compatible |-> compatible]

\* Loop.copy_tree_structure(): a duplicate of the tree
copy_tree_structure(program) == program

\* make_compatible(program, minimal_waveform_length, waveform_quantum,
\* sample_rate): works in place on the program it is given
make_compatible(program) == [program EXCEPT !.compatible = TRUE]

\* Loop.flatten_and_balance(depth): works in place
flatten_and_balance(program, depth) == [program EXCEPT !.depth = depth]

\* Lines 169-180: the program handed in (passed) and self._program (own), as
\* __init__ leaves them.  Line 169 copies, line 179 hands `program`, the
\* argument, to make_compatible, line 180 flattens self._program.
Normalized(passed) ==
    [passed |-> make_compatible(passed),
     own |-> flatten_and_balance(copy_tree_structure(passed), 1)]

\* Line 472: markers[0::2] zipped with markers[1::2]; zip drops an odd last one
GroupMarkers(markers) ==
    [i \in 1..(Len(markers) \div 2) |-> <<markers[2 * i - 1], markers[2 * i]>>]

\* TektronixProgram.__init__ (lines 159-189), given the grouped markers and the
\* amplitudes the device has reported, one per channel of the device.  The
\* assert of line 166 compares twice the number of channels with the number of
\* marker PAIRS.  As written, _initialize (lines 184-189) calls parse_program
\* without its required argument `amplitudes`, so a construction that passes
\* the asserts raises TypeError whatever the program: that is
\* constructs = FALSE.  constructs = TRUE is _initialize with the argument
\* passed; tek_program is then the value of get_sequencing_elements(), which
\* the rest of _upload works on.
TektronixProgram(s, tek_program, channels, markers, constructs) ==
    IF Raised(s) THEN s
    ELSE IF 2 * Len(channels) # Len(markers) THEN Raise(s, "AssertionError")
    ELSE IF Len(channels) # n_channels THEN Raise(s, "AssertionError")
    ELSE IF constructs
    THEN Return([s EXCEPT !.program = Normalized(@.passed)], tek_program)
    ELSE Raise([s EXCEPT !.program = Normalized(@.passed)], "TypeError")

\* _upload as it would be without the check of lines 464-469: the faulty
\* variant C3's property is tested against.
_upload_unchecked(s, name, tek_program, channels, markers, constructs, force) ==
    IF s.idle = NoPosition THEN Raise(s, "AssertionError")
    ELSE UploadCompiled(TektronixProgram(get_freq(get_amplitude(s)), tek_program, channels,
                                         GroupMarkers(markers), constructs),
                        name, tek_program)

\* Lines 474-477: the device is asked for the amplitudes and the sample rate
\* while the arguments of the construction are evaluated.
_upload(s, name, tek_program, channels, markers, constructs, force) ==
    IF s.idle = NoPosition THEN Raise(s, "AssertionError")
    ELSE IF name \in DOMAIN s.programs
    THEN IF ~force THEN Raise(s, "ValueError") ELSE Raise(s, "NotImplementedError")
    ELSE UploadCompiled(TektronixProgram(get_freq(get_amplitude(s)), tek_program, channels,
                                         GroupMarkers(markers), constructs),
                        name, tek_program)

\* A callback runs whether or not an exception is propagating; the exception it
\* raises replaces the one that was propagating.
Propagate(t, exc) == IF Raised(t) THEN t ELSE [t EXCEPT !.exc = exc]

\* ExitStack.__exit__: the callbacks run last-registered first.
RECURSIVE RunCallbacks(_, _)
RunCallbacks(s, callbacks) ==
    IF callbacks = <<>> THEN s
    ELSE RunCallbacks(Propagate(_delete_waveform([s EXCEPT !.exc = None],
                                                 callbacks[Len(callbacks)]),
                                s.exc),
                      SubSeq(callbacks, 1, Len(callbacks) - 1))

\* Lines 363-370; t: the state _upload has left
LeaveUpload(t, manual) ==
    IF ~manual
    THEN \* lines 364-365: leaving the with block runs auto_cleanup's callbacks
         [RunCallbacks(t, t.cs) EXCEPT !.cs = <<>>]
    ELSE \* lines 367-370: the pushed stack is emptied by pop_all() only when
         \* _upload returned
         [t EXCEPT !.cstack = Append(@, IF Raised(t) THEN t.cs ELSE <<>>), !.cs = <<>>]

upload(s, manual, name, tek_program, channels, markers, constructs, force) ==
    LeaveUpload(_upload([s EXCEPT !.cs = <<>>], name, tek_program, channels, markers,
                        constructs, force),
                manual)

-----------------------------------------------------------------------------
(* TektronixAWG: reading the device, clear, the idle program, arm *)

\* n queries of the same kind, one after the other
RECURSIVE IssueEach(_, _, _)
IssueEach(s, cmd, n) ==
    IF n = 0 \/ Raised(s) THEN s ELSE IssueEach(Issue(s, cmd, None), cmd, n - 1)

\* read_waveforms as it would be without the assignment of line 319: the
\* faulty variant C18's property is tested against.
StoreRead_skipped(t) == t

\* Lines 316-319
StoreRead(t) ==
    IF Raised(t) THEN t
    ELSE [t EXCEPT !.wf = WaveformStorage(
                              [i \in DOMAIN t.dw |->
                                  WaveformEntry(t.dw[i].name, t.dw[i].waveform.size,
                                                t.dw[i].waveform, t.dw[i].timestamp)])]

\* Lines 310-319: names, timestamps and lengths are one query each, the data
\* one query per waveform.
read_waveforms(s) ==
    StoreRead(IssueEach(Issue(Issue(Issue(s, "get_waveform_names", None),
                                    "get_waveform_timestamps", None),
                              "get_waveform_lengths", None),
                        "get_waveform_data", Len(s.dw)))

\* Lines 324-326
MirrorRead(t) ==
    IF Raised(t) THEN t
    ELSE [t EXCEPT !.se = [i \in DOMAIN t.ds |->
                              IF \A c \in DOMAIN t.ds[i].entries :
                                     t.ds[i].entries[c] = PyStr("")
                              THEN NoneElement ELSE t.ds[i]]]

\* Lines 322-326: the length is queried first, then each row
read_sequence(s) ==
    MirrorRead(IssueEach(Issue(s, "get_seq_length", None), "get_seq_element", Len(s.ds)))

\* device.write('WLIS:WAV:DEL ALL')
write_delete_all(s) ==
    [Issue(s, "write", "WLIS:WAV:DEL ALL") EXCEPT !.dw = IF Done(s) THEN <<>> ELSE @]

\* device.write('SEQ:LENG 0')
write_seq_length_0(s) ==
    [Issue(s, "write", "SEQ:LENG 0") EXCEPT !.ds = IF Done(s) THEN <<>> ELSE @]

_clear_waveforms(s) == read_waveforms(write_delete_all(s))

_clear_sequence(s) == read_sequence(write_seq_length_0(s))

\* clear() without its lines 273-275
ForgetPrograms_skipped(t) == t

\* Lines 273-275
ForgetPrograms(t) ==
    IF Raised(t) THEN t
    ELSE [t EXCEPT !.programs = EmptyDict, !.armed = NoArmedProgram, !.idle = NoPosition]

clear(s) == ForgetPrograms(_clear_waveforms(_clear_sequence(s)))

synchronize(s) == read_sequence(read_waveforms(s))

\* list.index(x) + 1, NoPosition when index raises ValueError
IndexOf(seq, x) ==
    IF \E i \in DOMAIN seq : seq[i] = x
    THEN CHOOSE i \in DOMAIN seq : seq[i] = x /\ \A j \in DOMAIN seq : seq[j] = x => i <= j
    ELSE NoPosition

idle_sequence_element(idle_waveform_name) ==
    SequenceEntry(Repeat(PyStr(idle_waveform_name), n_channels), FALSE, TRUE, NoPosition,
                  NoPosition, FALSE, "OFF", NoPosition)

\* Lines 298 and 303
SetIdleProgram(t, element) ==
    IF Raised(t) THEN t ELSE [t EXCEPT !.idle = IndexOf(t.se, element)]

\* Line 301; g: the state line 300 has left, g.ret the positions
UploadIdleElement(g, element) ==
    IF Raised(g) THEN g ELSE _upload_sequencing_element(g, g.ret[1], element)

\* Lines 297-303 as they would be without the lookup of line 298: the faulty
\* variant C13's property is tested against.
InitializeIdleElement_without_lookup(s, element) ==
    IF Raised(s) THEN s
    ELSE SetIdleProgram(UploadIdleElement(_get_empty_sequence_positions(s, 1), element),
                        element)

\* Lines 297-303, given the idle element
InitializeIdleElement(s, element) ==
    IF Raised(s) THEN s
    ELSE IF IndexOf(s.se, element) # NoPosition
    THEN SetIdleProgram(s, element)
    ELSE SetIdleProgram(UploadIdleElement(_get_empty_sequence_positions(s, 1), element),
                        element)

initialize_idle_program(s) ==
    IF make_idle_waveform(idle_length) \in DOMAIN s.wf.by_data
    THEN InitializeIdleElement(
             s, idle_sequence_element(s.wf.by_data[make_idle_waveform(idle_length)].name))
    ELSE InitializeIdleElement(
             _upload_waveform(s, make_idle_waveform(idle_length),
                              idle_pulse_name(make_idle_waveform(idle_length).size), FALSE),
             idle_sequence_element(idle_pulse_name(make_idle_waveform(idle_length).size)))

\* Lines 545-547: the registry holds (positions, tek_program, sequencing_elements),
\* so the name `positions` is bound to the TektronixProgram, which cannot be
\* indexed.
arm(s, name) ==
    IF name \notin DOMAIN s.programs THEN Raise(s, "KeyError")
    ELSE Raise(s, "TypeError")

\* Lines 336-338: set(self._programs.keys())
programs_(s) == Return(s, DOMAIN s.programs)

\* Lines 541-543.  The comprehension unpacks each registry value as
\* (_, positions, _); line 497 stores (positions, tek_program,
\* sequencing_elements), so `positions` is the TektronixProgram, which has no
\* __getitem__: positions[0] raises TypeError for the first item.  An empty
\* registry gives an empty dict.
get_program_information(s) ==
    IF DOMAIN s.programs = {} THEN Return(s, EmptyDict) ELSE Raise(s, "TypeError")

\* Lines 549-550: the body is `pass`
run(s) == s

\* cleanup as it would be without the raise of line 341 (lines 342-350)
cleanup_without_raise(s) ==
    [set_seq_length(s, s.idle) EXCEPT
        !.se = IF Done(s) /\ s.idle <= Len(@) THEN SubSeq(@, 1, s.idle) ELSE @]

\* Lines 340-341: the first statement raises, the rest of the body is not reached
cleanup(s) == Raise(s, "NotImplementedError")

\* Lines 352-353
remove(s, name) == Raise(s, "NotImplementedError")

\* Lines 359-360; the arguments are not looked at
_set_state(s) == Raise(s, "NotImplementedError")

\* Lines 448-452: pop() has removed the entry when unpacking its three values
\* into two names raises.
_unload(s, name) ==
    IF name \notin DOMAIN s.programs THEN Raise(s, "KeyError")
    ELSE Raise([s EXCEPT !.programs = DictDel(@, name)], "ValueError")

-----------------------------------------------------------------------------
(* Inputs *)

MaxSequenceLength == 3

MaxCleanupStack == 2

MaxFailIndex == 11

ProgramNames == {"p1", "p2"}

Timestamps == {"t1"}

\* What parse_program makes of a leaf: SequenceEntry(entries=..., loop_count=...)
Leaf(entries, loop_count) ==
    SequenceEntry(entries, FALSE, FALSE, loop_count, NoPosition, FALSE, "OFF", NoPosition)

OtherWaveform == Waveform(0, 250, 1, 0)

LeafA == Leaf(<<PyInt(250), PyInt(250)>>, 1)

LeafB == Leaf(<<PyInt(500), PyInt(250)>>, 2)

LeafC == Leaf(<<PyInt(idle_length), PyStr(idle_pulse_name(idle_length))>>, 3)

LeafW == Leaf(<<PyWaveform(OtherWaveform), PyInt(250)>>, 1)

TekPrograms ==
    {<<LeafA, LeafB>>, <<LeafC>>, <<LeafW>>}

\* The channels and the markers upload() is called with: one channel per channel
\* of the device and as many markers as the assert of line 166 lets through.
Channels == <<"A", "B">>

Markers == <<"M1", "M2", "M3", "M4", "M5", "M6", "M7", "M8">>

CatalogItem(name, waveform) == [name |-> name, waveform |-> waveform, timestamp |-> "t0"]

ForeignRow ==
    SequenceEntry(Repeat(PyStr("other"), n_channels), FALSE, FALSE, 1, NoPosition, FALSE,
                  "OFF", NoPosition)

\* What the instrument holds when the driver is constructed.
Devices ==
    {[dw |-> <<>>, ds |-> <<>>],
     [dw |-> <<CatalogItem(idle_pulse_name(idle_length), make_idle_waveform(idle_length))>>,
      ds |-> <<BlankRow, idle_sequence_element(idle_pulse_name(idle_length)), BlankRow>>],
     [dw |-> <<CatalogItem("zero", make_idle_waveform(idle_length)),
               CatalogItem("other", OtherWaveform)>>,
      ds |-> <<BlankRow, ForeignRow, BlankRow>>],
     [dw |-> <<CatalogItem("other", OtherWaveform), CatalogItem("copy", OtherWaveform),
               CatalogItem(idle_pulse_name(250), OtherWaveform)>>,
      ds |-> <<>>]}

-----------------------------------------------------------------------------
(* The driver as a state machine *)

\* The state a call starts from.
State(fail, now) ==
    [dw |-> device_waveforms, ds |-> device_sequence, wf |-> waveforms,
     se |-> sequence_entries, programs |-> programs, idle |-> idle_program,
     armed |-> armed_program, cstack |-> cleanup_stack, cs |-> <<>>, log |-> <<>>,
     exc |-> None, ret |-> None, alloc |-> NoAllocation, fail |-> fail, now |-> now,
     program |-> [passed |-> Loop(<<>>, 1, FALSE), own |-> Loop(<<>>, 1, FALSE)]]

\* What is recorded of a call that has left the state r.
Recorded(r, op, name, force) ==
    [op |-> op, name |-> name, force |-> force, exc |-> r.exc, log |-> r.log,
     alloc |-> r.alloc]

\* The state a call leaves, and what is recorded of the call.  r.fail = -1: the
\* device command that was to raise has been issued.
LeaveRecorded(r, record) ==
    /\ r.fail = -1
    /\ device_waveforms' = r.dw
    /\ device_sequence' = r.ds
    /\ waveforms' = r.wf
    /\ sequence_entries' = r.se
    /\ programs' = r.programs
    /\ idle_program' = r.idle
    /\ armed_program' = r.armed
    /\ cleanup_stack' = r.cstack
    /\ call' = record
    /\ UNCHANGED <<manual_cleanup, storage, storage_call>>

Leave(r, op, name, force) == LeaveRecorded(r, Recorded(r, op, name, force))

\* __init__ (lines 239-257) on a device d
Constructed(d, synchronize_) ==
    initialize_idle_program(
        IF synchronize_ = "read"
        THEN synchronize([dw |-> d.dw, ds |-> d.ds, wf |-> WaveformStorage(<<>>),
                          se |-> <<>>, programs |-> EmptyDict, idle |-> NoPosition,
                          armed |-> NoArmedProgram, cstack |-> <<>>, cs |-> <<>>,
                          log |-> <<>>, exc |-> None, ret |-> None,
                          alloc |-> NoAllocation, fail |-> -1, now |-> "t0"])
        ELSE clear([dw |-> d.dw, ds |-> d.ds, wf |-> WaveformStorage(<<>>),
                    se |-> <<>>, programs |-> EmptyDict, idle |-> NoPosition,
                    armed |-> NoArmedProgram, cstack |-> <<>>, cs |-> <<>>,
                    log |-> <<>>, exc |-> None, ret |-> None,
                    alloc |-> NoAllocation, fail |-> -1, now |-> "t0"]))

NoStorage == WaveformStorage(<<>>)

NoStorageCall == [op |-> "__init__"]

Init ==
    \E d \in Devices, manual \in BOOLEAN, synchronize_ \in {"read", "clear"} :
        \E r \in {Constructed(d, synchronize_)} :
            /\ r.exc = None
            /\ device_waveforms = r.dw
            /\ device_sequence = r.ds
            /\ manual_cleanup = manual
            /\ waveforms = r.wf
            /\ sequence_entries = r.se
            /\ programs = r.programs
            /\ idle_program = r.idle
            /\ armed_program = r.armed
            /\ cleanup_stack = r.cstack
            /\ call = [op |-> "__init__", name |-> None, force |-> FALSE, exc |-> None,
                       log |-> r.log, alloc |-> r.alloc]
            /\ storage = NoStorage
            /\ storage_call = NoStorageCall

\* The length of the table once `length` positions have been allocated.
TableLengthAfter(se, length) ==
    LET free == Cardinality({i \in DOMAIN se : se[i] = NoneElement})
    IN  IF length > free THEN Len(se) + length - free ELSE Len(se)

Upload ==
    \E name \in ProgramNames, tek_program \in TekPrograms, constructs \in BOOLEAN,
       now \in Timestamps, fail \in -1..MaxFailIndex :
      \E force \in IF name \in DOMAIN programs THEN BOOLEAN ELSE {FALSE} :
        /\ TableLengthAfter(sequence_entries, Len(tek_program)) <= MaxSequenceLength
        /\ Len(cleanup_stack) < MaxCleanupStack
        /\ Leave(upload(State(fail, now), manual_cleanup, name, tek_program, Channels,
                        Markers, constructs, force),
                 "upload", name, force)

Clear ==
    Leave(clear(State(-1, "t1")), "clear", None, FALSE)

Synchronize ==
    Leave(synchronize(State(-1, "t1")), "synchronize", None, FALSE)

InitializeIdleProgram ==
    \E now \in Timestamps, fail \in -1..MaxFailIndex :
        /\ TableLengthAfter(sequence_entries, 1) <= MaxSequenceLength
        /\ Leave(initialize_idle_program(State(fail, now)), "initialize_idle_program",
                 None, FALSE)

Arm ==
    \E name \in ProgramNames :
        Leave(arm(State(-1, "t1"), name), "arm", name, FALSE)

Unload ==
    \E name \in ProgramNames :
        Leave(_unload(State(-1, "t1"), name), "_unload", name, FALSE)

Run ==
    Leave(run(State(-1, "t1")), "run", None, FALSE)

Cleanup ==
    Leave(cleanup(State(-1, "t1")), "cleanup", None, FALSE)

Remove ==
    \E name \in ProgramNames :
        Leave(remove(State(-1, "t1"), name), "remove", name, FALSE)

SetState ==
    Leave(_set_state(State(-1, "t1")), "_set_state", None, FALSE)

Next ==
    \/ Upload \/ Clear \/ Synchronize \/ InitializeIdleProgram \/ Arm \/ Run \/ Unload
    \/ Cleanup \/ Remove \/ SetState

Spec == Init /\ [][Next]_vars


-----------------------------------------------------------------------------
(* A WaveformStorage on its own *)

MaxEntries == 2

StorageNames == {"a", "b"}

\* What np.full gives when it is handed over without the TekAwg.Waveform
\* around it: a value that cannot be a dict key.
Ndarray == [kind |-> "ndarray", fill |-> 1, size |-> 1, marker_1 |-> 0, marker_2 |-> 0]

StoragePayloads == {Waveform(1, 1, 0, 0), Waveform(2, 1, 0, 0)}

StorageEntries(payloads) ==
    {WaveformEntry(name, 1, waveform, timestamp) :
         name \in StorageNames, waveform \in payloads, timestamp \in {"t0", "t1"}}

\* Lists of entries as the device lists its waveforms: no name twice.
StorageLists ==
    {wfs \in UNION {[1..n -> StorageEntries(StoragePayloads)] : n \in 0..MaxEntries} :
         \A i, j \in DOMAIN wfs : wfs[i].name = wfs[j].name => i = j}

StorageCall(op, name, entry, overwrite, result) ==
    [op |-> op, name |-> name, entry |-> entry, overwrite |-> overwrite,
     exc |-> result.exc, ret |-> result.ret, before |-> storage]

\* The driver's variables, which no step on the storage touches.
AwgUnused ==
    /\ device_waveforms = <<>>
    /\ device_sequence = <<>>
    /\ manual_cleanup = FALSE
    /\ waveforms = NoStorage
    /\ sequence_entries = <<>>
    /\ programs = EmptyDict
    /\ idle_program = NoPosition
    /\ armed_program = NoArmedProgram
    /\ cleanup_stack = <<>>
    /\ call = [op |-> "None"]

InitStorage ==
    \E wfs \in StorageLists :
        /\ storage = WaveformStorage(wfs)
        /\ storage_call = [op |-> "__init__", name |-> None, entry |-> NoEntry,
                           overwrite |-> FALSE, exc |-> None, ret |-> NoEntry,
                           before |-> NoStorage]
        /\ AwgUnused

AddWaveform ==
    \E waveform_entry \in StorageEntries(StoragePayloads \cup {Ndarray}),
       overwrite \in BOOLEAN :
        \E result \in {add_waveform(storage, waveform_entry.name, waveform_entry, overwrite)} :
            /\ storage' = result.st
            /\ storage_call' = StorageCall("add_waveform", waveform_entry.name,
                                           waveform_entry, overwrite, result)
            /\ UNCHANGED awg_vars

PopWaveform ==
    \E name \in StorageNames :
        \E result \in {pop_waveform(storage, name)} :
            /\ storage' = result.st
            /\ storage_call' = StorageCall("pop_waveform", name, NoEntry, FALSE, result)
            /\ UNCHANGED awg_vars

NextStorage == AddWaveform \/ PopWaveform

SpecStorage == InitStorage /\ [][NextStorage]_vars

-----------------------------------------------------------------------------
(* _get_empty_sequence_positions on its own *)

MaxTableLength == 5

MaxRequest == 3

\* The device tables: every row is blank or holds a waveform.
Tables == UNION {[1..n -> {BlankRow, ForeignRow}] : n \in 0..MaxTableLength}

\* The driver after read_sequence() on a device whose table is rows.
InitAllocation ==
    \E rows \in Tables :
        \E r \in {read_sequence([dw |-> <<>>, ds |-> rows, wf |-> WaveformStorage(<<>>),
                                  se |-> <<>>, programs |-> EmptyDict, idle |-> NoPosition,
                                  armed |-> NoArmedProgram, cstack |-> <<>>, cs |-> <<>>,
                                  log |-> <<>>, exc |-> None, ret |-> None,
                                  alloc |-> NoAllocation, fail |-> -1, now |-> "t0"])} :
            /\ device_waveforms = r.dw
            /\ device_sequence = r.ds
            /\ manual_cleanup = FALSE
            /\ waveforms = r.wf
            /\ sequence_entries = r.se
            /\ programs = r.programs
            /\ idle_program = r.idle
            /\ armed_program = r.armed
            /\ cleanup_stack = r.cstack
            /\ call = [op |-> "read_sequence", name |-> None, force |-> FALSE,
                       exc |-> None, log |-> r.log, alloc |-> r.alloc]
            /\ storage = NoStorage
            /\ storage_call = NoStorageCall

GetEmptySequencePositions ==
    \E length \in 0..MaxRequest, fail \in {-1, 0} :
        /\ Len(sequence_entries) <= MaxTableLength
        /\ Leave(_get_empty_sequence_positions(State(fail, "t1"), length),
                 "_get_empty_sequence_positions", None, FALSE)

UploadSequencingElement ==
    \E element_index \in DOMAIN sequence_entries :
        /\ sequence_entries[element_index] = NoneElement
        /\ Leave(_upload_sequencing_element(State(-1, "t1"), element_index, ForeignRow),
                 "_upload_sequencing_element", None, FALSE)

NextAllocation == GetEmptySequencePositions \/ UploadSequencingElement

SpecAllocation == InitAllocation /\ [][NextAllocation]_vars


-----------------------------------------------------------------------------
(* upload() on sequence tables with holes *)

MaxLinkLength == 7

\* The device tables: every row is blank or holds a foreign waveform.
LinkTables == UNION {[1..n -> {BlankRow, ForeignRow}] : n \in 0..MaxLinkLength}

LinkPrograms == {<<LeafA>>, <<LeafA, LeafB>>, <<LeafA, LeafB, LeafA>>}

\* TektronixAWG(device, synchronize='read') on a device that holds the waveform
\* 'other' and the table rows.
InitLinking ==
    \E rows \in LinkTables, manual \in BOOLEAN :
        \E r \in {Constructed([dw |-> <<CatalogItem("other", OtherWaveform)>>, ds |-> rows],
                              "read")} :
            /\ r.exc = None
            /\ device_waveforms = r.dw
            /\ device_sequence = r.ds
            /\ manual_cleanup = manual
            /\ waveforms = r.wf
            /\ sequence_entries = r.se
            /\ programs = r.programs
            /\ idle_program = r.idle
            /\ armed_program = r.armed
            /\ cleanup_stack = r.cstack
            /\ call = [op |-> "__init__", name |-> None, force |-> FALSE, exc |-> None,
                       log |-> r.log, alloc |-> r.alloc]
            /\ storage = NoStorage
            /\ storage_call = NoStorageCall

\* upload() of a program that compiles, on a device that carries out every
\* command.
LinkUpload ==
    \E name \in ProgramNames, tek_program \in LinkPrograms :
        /\ TableLengthAfter(sequence_entries, Len(tek_program)) <= MaxLinkLength + 1
        /\ Len(cleanup_stack) < MaxCleanupStack
        /\ Leave(upload(State(-1, "t1"), manual_cleanup, name, tek_program, Channels,
                        Markers, TRUE, FALSE),
                 "upload", name, FALSE)

NextLinking == LinkUpload

SpecLinking == InitLinking /\ [][NextLinking]_vars


-----------------------------------------------------------------------------
(* _process_program and the upload() of what it returns *)

\* A second leaf whose first channel has the payload of LeafW's.
LeafV == Leaf(<<PyWaveform(OtherWaveform), PyInt(500)>>, 2)

\* A leaf naming a waveform no device of Devices holds
LeafU == Leaf(<<PyInt(500), PyStr("unknown")>>, 1)

ProcessPrograms == TekPrograms \cup {<<LeafW, LeafV>>, <<LeafA, LeafU>>}

\* _process_program(name, tek_program) on the driver as it stands: it works on
\* the store and on locals only, and `processed` is what it returned or raised.
ProcessProgram ==
    \E name \in ProgramNames, tek_program \in ProcessPrograms :
        \E processed \in {_process_program(waveforms, name, tek_program)} :
            /\ call' = [op |-> "_process_program", name |-> name, force |-> FALSE,
                        exc |-> processed.exc, log |-> <<>>, alloc |-> NoAllocation,
                        tek_program |-> tek_program, processed |-> processed]
            /\ UNCHANGED <<device_waveforms, device_sequence, manual_cleanup, waveforms,
                           sequence_entries, programs, idle_program, armed_program,
                           cleanup_stack, storage, storage_call>>

\* upload() of a program that compiles to tek_program, on a device that carries
\* out every command.
ProcessUpload ==
    \E name \in ProgramNames, tek_program \in ProcessPrograms :
        \E r \in {upload(State(-1, "t1"), manual_cleanup, name, tek_program, Channels,
                          Markers, TRUE, FALSE)} :
            /\ TableLengthAfter(sequence_entries, Len(tek_program)) <= MaxSequenceLength
            /\ Len(cleanup_stack) < MaxCleanupStack
            /\ LeaveRecorded(r, [op |-> "upload", name |-> name, force |-> FALSE,
                                 exc |-> r.exc, log |-> r.log, alloc |-> r.alloc,
                                 tek_program |-> tek_program,
                                 store_before |-> waveforms,
                                 registered |-> name \in DOMAIN programs])

NextProcess == ProcessProgram \/ ProcessUpload

SpecProcess == Init /\ [][NextProcess]_vars


-----------------------------------------------------------------------------
(* upload() with every count of channels and markers *)

ChannelTuples == {SubSeq(Channels, 1, n) : n \in 0..Len(Channels)}

MarkerTuples == {SubSeq(Markers, 1, n) : n \in 0..Len(Markers)}

\* The programs handed to upload(): nested or flat, compatible already or not.
LoopPrograms == {Loop(<<>>, depth, compatible) : depth \in 1..2, compatible \in BOOLEAN}

\* upload(name, program, channels, markers, ...) on a device that carries out
\* every command; tek_program is what the program compiles to.
CompileUpload ==
    \E name \in ProgramNames, program \in LoopPrograms, channels \in ChannelTuples,
       markers \in MarkerTuples, constructs \in BOOLEAN :
        \E r \in {upload([State(-1, "t1") EXCEPT !.program.passed = program],
                          manual_cleanup, name, <<LeafA>>, channels, markers, constructs,
                          FALSE)} :
            /\ TableLengthAfter(sequence_entries, 1) <= MaxSequenceLength
            /\ Len(cleanup_stack) < MaxCleanupStack
            /\ LeaveRecorded(r, [op |-> "upload", name |-> name, force |-> FALSE,
                                 exc |-> r.exc, log |-> r.log, alloc |-> r.alloc,
                                 channels |-> channels, markers |-> markers,
                                 passed_before |-> program, program |-> r.program,
                                 registered |-> name \in DOMAIN programs,
                                 idle_before |-> idle_program])

NextCompile == CompileUpload \/ Clear

SpecCompile == Init /\ [][NextCompile]_vars


-----------------------------------------------------------------------------
(* parse_program on its own *)
(*                                                                          *)
(* A pulse waveform is a record [duration, volts]: volts maps each channel  *)
(* and marker it defines to the constant level it holds (a marker's level   *)
(* is 0 or 1).  Durations are counted in units of 1/sample_rate, so a       *)
(* duration times the sample rate is a whole number.  A leaf of the         *)
(* program is [waveform, repetition_count].                                 *)

Minimum(S) == CHOOSE n \in S : \A m \in S : n <= m

\* A voltage transformation, applied
Transformed(trafo, voltage) == IF trafo = "negate" THEN 0 - voltage ELSE voltage

\* qctoolkit.hardware.util.voltage_to_uint16: the code of a voltage within
\* [offset - amp/2, offset + amp/2] at the given resolution
voltage_to_uint16(voltage, output_amplitude, output_offset, resolution) ==
    ((2 * (voltage - output_offset) + output_amplitude) * (2 ^ resolution - 1))
        \div (2 * output_amplitude)

\* Lines 91-96
make_binary_converter(amp, trafo) == [amp |-> amp, trafo |-> trafo]

to_uint16(converter, voltage) ==
    voltage_to_uint16(Transformed(converter.trafo, voltage), converter.amp, 0, 14)

\* Lines 99-100: zip stops at the shorter of the two
binary_converters(amplitudes, voltage_transformations) ==
    [i \in 1..Minimum({Len(amplitudes), Len(voltage_transformations)}) |->
        make_binary_converter(amplitudes[i], voltage_transformations[i])]

\* Waveform.get_subset_for_channels(chs)
get_subset_for_channels(waveform, chs) == [waveform |-> waveform, channels |-> chs]

\* Waveform.get_sampled(channel=..., sample_times=...): the level on that channel
get_sampled(waveform, channel) == waveform.volts[channel]

\* Lines 103-105.  time_array is held as its length: it is np.zeros(1) at
\* first and np.arange(0, duration, step=1/sample_rate) once renewed, so its
\* last element is (length - 1) / sample_rate.
RenewedTimeArray(time_array, n_samples) ==
    IF n_samples > time_array - 1 THEN n_samples ELSE time_array

\* len(time_array[:n_samples])
Sliced(time_array, n_samples) == Minimum({time_array, n_samples})

\* A key list that takes a key again each time it is set
WithKey_again(keys, key) == Append(keys, key)

\* dict[key] = ... on a dict held as the sequence of its keys in insertion order
WithKey(keys, key) ==
    IF \E i \in DOMAIN keys : keys[i] = key THEN keys ELSE Append(keys, key)

\* Lines 119-139: the payload of one hardware channel
bin_waveform(waveform, size, channel, marker_1, marker_2, converter) ==
    Waveform(to_uint16(converter, IF channel = None THEN 0 ELSE get_sampled(waveform, channel)),
             size,
             IF marker_1 = None THEN 0 ELSE get_sampled(waveform, marker_1),
             IF marker_2 = None THEN 0 ELSE get_sampled(waveform, marker_2))

\* Lines 139-147: the payload is filed under the sub-waveform; a payload equal
\* to one filed before is replaced by that one, which is the same value.
Filed(p, ch_waveform, payload) ==
    [p EXCEPT !.bin_waveforms = WithKey(@, PyWaveform(payload)),
              !.ch_waveforms = (ch_waveform :> payload) @@ @]

\* Lines 117-149: a hardware channel with a source
ParseSource(p, ch_waveform, payload) ==
    IF ch_waveform \in DOMAIN p.ch_waveforms
    THEN [p EXCEPT !.entries = Append(@, PyWaveform(p.ch_waveforms[ch_waveform]))]
    ELSE [Filed(p, ch_waveform, payload) EXCEPT !.entries = Append(@, PyWaveform(payload))]

\* Lines 109-149: one pass of the loop over the hardware channels
ParseChannel(p, waveform, n_samples, channel, marker_1, marker_2, converter) ==
    IF {channel, marker_1, marker_2} \ {None} = {}
    THEN [p EXCEPT !.entries = Append(@, PyInt(n_samples)),
                   !.bin_waveforms = WithKey(@, PyInt(n_samples))]
    ELSE ParseSource(p, get_subset_for_channels(waveform, {channel, marker_1, marker_2} \ {None}),
                     bin_waveform(waveform, Sliced(p.time_array, n_samples), channel, marker_1,
                                  marker_2, converter))

\* Line 109: zip(channels, markers, binary_converters), the first i triples
RECURSIVE ParseChannels(_, _, _, _, _, _, _)
ParseChannels(p, waveform, n_samples, channels, markers, converters, i) ==
    IF i = 0 THEN p
    ELSE ParseChannel(ParseChannels(p, waveform, n_samples, channels, markers, converters, i - 1),
                      waveform, n_samples, channels[i], markers[i][1], markers[i][2],
                      converters[i])

\* SequenceEntry(entries=entries, loop_count=1), whatever the leaf's count is
AppendElement_once(p, loop) ==
    [p EXCEPT !.sequencing_elements = Append(@, Leaf(p.entries, 1))]

\* Lines 151-153
AppendElement(p, loop) ==
    [p EXCEPT !.sequencing_elements = Append(@, Leaf(p.entries, loop.repetition_count))]

\* Lines 102-153: one pass of the loop over the leaves
ParseLoop(p, loop, n_samples, channels, markers, converters) ==
    AppendElement(
        ParseChannels([p EXCEPT !.time_array = RenewedTimeArray(@, n_samples),
                                !.entries = <<>>],
                      loop.waveform, n_samples, channels, markers, converters,
                      Minimum({Len(channels), Len(markers), Len(converters)})),
        loop)

\* Line 102: for loop in program, the first j leaves
RECURSIVE ParseLoops(_, _, _, _, _, _, _)
ParseLoops(p, leaves, sample_rate, channels, markers, converters, j) ==
    IF j = 0 THEN p
    ELSE ParseLoop(ParseLoops(p, leaves, sample_rate, channels, markers, converters, j - 1),
                   leaves[j], leaves[j].waveform.duration * sample_rate, channels, markers,
                   converters)

\* Lines 82-87
ParseStart ==
    [sequencing_elements |-> <<>>, time_array |-> 1, ch_waveforms |-> <<>>,
     bin_waveforms |-> <<>>, entries |-> <<>>]

\* Line 155
ParseResult(p) ==
    [exc |-> None, sequencing_elements |-> p.sequencing_elements,
     waveforms |-> p.bin_waveforms]

\* Lines 74-155
parse_program(program, channels, markers, sample_rate, amplitudes, voltage_transformations) ==
    IF program.depth # 1
    THEN [exc |-> "AssertionError", sequencing_elements |-> <<>>, waveforms |-> <<>>]
    ELSE ParseResult(ParseLoops(ParseStart, program.leaves, sample_rate, channels, markers,
                                binary_converters(amplitudes, voltage_transformations),
                                Len(program.leaves)))

MaxLeaves == 2

MaxHardwareChannels == 2

\* Pulse waveforms defining the channel "A" and the marker "M".  PulseLow
\* under the transformation "negate" has the samples of PulseHigh.
PulseHigh == [duration |-> 250, volts |-> [A |-> 1, M |-> 1]]

PulseLong == [duration |-> 500, volts |-> [A |-> 1, M |-> 0]]

PulseLow == [duration |-> 250, volts |-> [A |-> 0 - 1, M |-> 1]]

ProgramLeaves ==
    {[waveform |-> PulseHigh, repetition_count |-> 1],
     [waveform |-> PulseLong, repetition_count |-> 2],
     [waveform |-> PulseLow, repetition_count |-> 3]}

Tuples(S, n) == UNION {[1..k -> S] : k \in 0..n}

ParsePrograms ==
    {Loop(leaves, depth, TRUE) : leaves \in Tuples(ProgramLeaves, MaxLeaves), depth \in 1..2}

\* channels, and the markers in pairs, of up to MaxHardwareChannels hardware
\* channels; a hardware channel may have no source at all
ParseChannelTuples == Tuples({None, "A"}, MaxHardwareChannels)

ParseMarkerTuples == Tuples({<<None, None>>, <<"M", None>>}, MaxHardwareChannels)

SampleRates == {1, 2}

Amplitudes == Repeat(2, MaxHardwareChannels)

VoltageTransformations ==
    {Repeat("identity", MaxHardwareChannels),
     [i \in 1..MaxHardwareChannels |->
         IF i = MaxHardwareChannels THEN "negate" ELSE "identity"]}

\* A freshly constructed driver, and the arguments of the call to come.
InitParse ==
    /\ storage = NoStorage /\ storage_call = NoStorageCall /\ manual_cleanup = FALSE
    /\ \E r \in {Constructed([dw |-> <<>>, ds |-> <<>>], "clear")} :
           /\ device_waveforms = r.dw /\ device_sequence = r.ds
           /\ waveforms = r.wf /\ sequence_entries = r.se /\ programs = r.programs
           /\ idle_program = r.idle /\ armed_program = r.armed
           /\ cleanup_stack = r.cstack
    /\ \E program \in ParsePrograms, channels \in ParseChannelTuples,
          markers \in ParseMarkerTuples, sample_rate \in SampleRates,
          voltage_transformations \in VoltageTransformations :
           call = [op |-> "arguments", program |-> program, channels |-> channels,
                   markers |-> markers, sample_rate |-> sample_rate,
                   amplitudes |-> Amplitudes,
                   voltage_transformations |-> voltage_transformations]

ParseProgram ==
    /\ call.op = "arguments"
    /\ \E r \in {parse_program(call.program, call.channels, call.markers, call.sample_rate,
                               call.amplitudes, call.voltage_transformations)} :
           call' = [call EXCEPT !.op = "parse_program"] @@
                   [exc |-> r.exc, sequencing_elements |-> r.sequencing_elements,
                    waveforms |-> r.waveforms]
    /\ UNCHANGED <<storage, storage_call, device_waveforms, device_sequence,
                   manual_cleanup, waveforms, sequence_entries, programs,
                   idle_program, armed_program, cleanup_stack>>

NextParse == ParseProgram

SpecParse == InitParse /\ [][NextParse]_vars

-----------------------------------------------------------------------------
(* The registry as the caller sees it *)

GetProgramInformation ==
    \E r \in {get_program_information(State(-1, "t1"))} :
        LeaveRecorded(r, [op |-> "get_program_information", name |-> None,
                          force |-> FALSE, exc |-> r.exc, log |-> r.log,
                          alloc |-> r.alloc, ret |-> r.ret])

Programs ==
    \E r \in {programs_(State(-1, "t1"))} :
        LeaveRecorded(r, [op |-> "programs", name |-> None, force |-> FALSE,
                          exc |-> r.exc, log |-> r.log, alloc |-> r.alloc,
                          ret |-> r.ret])

NextInformation ==
    ProcessUpload \/ Unload \/ Clear \/ GetProgramInformation \/ Programs

SpecInformation == Init /\ [][NextInformation]_vars

-----------------------------------------------------------------------------
(* The driver on a device that may fail any command of clear() and          *)
(* synchronize() too                                                        *)

FaultyClear ==
    \E fail \in -1..MaxFailIndex :
        Leave(clear(State(fail, "t1")), "clear", None, FALSE)

FaultySynchronize ==
    \E fail \in -1..MaxFailIndex :
        Leave(synchronize(State(fail, "t1")), "synchronize", None, FALSE)

\* upload() on a device that carries out every command of it
FaultlessUpload ==
    \E name \in ProgramNames, tek_program \in TekPrograms :
        /\ TableLengthAfter(sequence_entries, Len(tek_program)) <= MaxSequenceLength
        /\ Len(cleanup_stack) < MaxCleanupStack
        /\ Leave(upload(State(-1, "t1"), manual_cleanup, name, tek_program, Channels,
                        Markers, TRUE, FALSE),
                 "upload", name, FALSE)

NextFaults ==
    FaultlessUpload \/ FaultyClear \/ FaultySynchronize \/ Arm \/ Unload

\* A driver constructed on an empty device, with the ExitStack of upload()
\* left to the `with` statement.
InitFaults ==
    /\ Init
    /\ Len(device_waveforms) = 1 /\ Len(device_sequence) = 1
    /\ manual_cleanup = FALSE

SpecFaults == InitFaults /\ [][NextFaults]_vars

-----------------------------------------------------------------------------
(* Properties *)

Range(seq) == {seq[i] : i \in DOMAIN seq}

\* The device commands that change the device.
Mutating == {"new_waveform", "del_waveform", "set_seq_length", "set_seq_element", "write"}

FreePositions(se) == SelectSeq([i \in 1..Len(se) |-> i], LAMBDA i : se[i] = NoneElement)

Ascending(seq) == \A i, j \in DOMAIN seq : i < j => seq[i] < seq[j]

Reverse(seq) == [i \in 1..Len(seq) |-> seq[Len(seq) + 1 - i]]

\* The names of the commands `cmd` of a call's log that succeeded (ok) or
\* raised (~ok), in the order issued.
Args(log, cmd, ok) ==
    LET hits == SelectSeq(log, LAMBDA c : c.cmd = cmd /\ c.ok = ok)
    IN  [i \in DOMAIN hits |-> hits[i].arg]

\* The mirror matches the device: the store holds exactly the names the
\* device holds, and row by row the mirror holds the device's row (None for a
\* blank row).
MirrorMatches(wf, se, dw, ds) ==
    /\ DOMAIN wf.by_name = CatalogNames(dw)
    /\ Len(se) = Len(ds)
    /\ \A i \in DOMAIN se : se[i] = IF ds[i] = BlankRow THEN NoneElement ELSE ds[i]

C3_DuplicateNameRejected ==
    [][(call'.op = "upload" /\ ~call'.force /\ call'.name \in DOMAIN programs) =>
           /\ call'.exc # None
           /\ \A i \in DOMAIN call'.log : call'.log[i].cmd \notin Mutating
           /\ programs' = programs
           /\ waveforms' = waveforms
           /\ sequence_entries' = sequence_entries]_vars

\* A second upload of a registered name with force=False has been rejected.
C3_Witness ==
    /\ call.op = "upload"
    /\ ~call.force
    /\ call.name \in DOMAIN programs
    /\ call.exc = "ValueError"

C5_ViewsConsistent ==
    /\ Values(storage.by_name) = Values(storage.by_data)
    /\ StorageIter(storage) = Values(storage.by_name)
    /\ StorageLen(storage) = Cardinality(DOMAIN storage.by_name)

\* C6: add_waveform(name, entry, overwrite=False) with a name in by_name
\* raises the collision error and leaves both views as they were.
C6_CollisionLeavesStore ==
    (/\ storage_call.op = "add_waveform"
     /\ ~storage_call.overwrite
     /\ storage_call.name \in DOMAIN storage_call.before.by_name) =>
        /\ storage_call.exc = "RuntimeError"
        /\ storage = storage_call.before

\* A colliding add_waveform without overwrite has been made.
C6_Witness ==
    /\ storage_call.op = "add_waveform"
    /\ ~storage_call.overwrite
    /\ storage_call.name \in DOMAIN storage_call.before.by_name
    /\ storage_call.exc = "RuntimeError"

\* C7: add_waveform(name, entry, overwrite=True) with a name in by_name: when
\* it returns, by_name[name] is the new entry and the old entry is in neither
\* view; when it raises, the store is as it was before the call.
C7_OverwriteAtomic ==
    (/\ storage_call.op = "add_waveform"
     /\ storage_call.overwrite
     /\ storage_call.name \in DOMAIN storage_call.before.by_name) =>
        IF storage_call.exc = None
        THEN /\ storage.by_name[storage_call.name] = storage_call.entry
             /\ storage_call.before.by_name[storage_call.name] # storage_call.entry =>
                    storage_call.before.by_name[storage_call.name]
                        \notin Values(storage.by_name) \cup Values(storage.by_data)
        ELSE storage = storage_call.before

\* C8: pop_waveform(name) of a name in by_name returns the named entry and
\* leaves it in neither view; of a name not in by_name it raises and leaves
\* the store as it was.
C8_PopRemovesFromBothViews ==
    storage_call.op = "pop_waveform" =>
        IF storage_call.name \in DOMAIN storage_call.before.by_name
        THEN /\ storage_call.exc = None
             /\ storage_call.ret = storage_call.before.by_name[storage_call.name]
             /\ storage_call.name \notin DOMAIN storage.by_name
             /\ storage_call.ret \notin Values(storage.by_name) \cup Values(storage.by_data)
        ELSE /\ storage_call.exc = "KeyError"
             /\ storage = storage_call.before

\* C9: an allocation made when the mirror has at least `length` free positions
\* returns the `length` lowest of them in ascending order, issues no
\* set_seq_length and leaves the mirror as it was; and an upload() that has
\* returned has registered as many positions as the program has sequencing
\* elements.
C9_AllocationWithEnoughFree ==
    /\ (/\ call.alloc.length >= 0
        /\ Len(FreePositions(call.alloc.se_before)) >= call.alloc.length) =>
           /\ call.alloc.ret = SubSeq(FreePositions(call.alloc.se_before), 1, call.alloc.length)
           /\ \A i \in DOMAIN call.alloc.commands :
                  call.alloc.commands[i].cmd # "set_seq_length"
           /\ call.alloc.se_after = call.alloc.se_before
    /\ (call.op = "upload" /\ call.exc = None) =>
           Len(programs[call.name].positions) = Len(programs[call.name].sequencing_elements)

\* C10: an allocation that returns when fewer than `length` positions are free
\* has set the device table length to the old length plus the shortfall,
\* appended that many free positions to the mirror and returned the positions
\* that were free followed by the appended ones, in ascending order; and no
\* allocation shortens the device table or the mirror.
C10_AllocationWithShortfall ==
    call.alloc.length >= 0 =>
        LET free == FreePositions(call.alloc.se_before)
            shortfall == call.alloc.length - Len(free)
        IN  /\ Len(call.alloc.ds_after) >= Len(call.alloc.ds_before)
            /\ Len(call.alloc.se_after) >= Len(call.alloc.se_before)
            /\ (shortfall > 0 /\ call.alloc.exc = None) =>
                   /\ Len(call.alloc.ds_after) = Len(call.alloc.ds_before) + shortfall
                   /\ \E i \in DOMAIN call.alloc.commands :
                          /\ call.alloc.commands[i].cmd = "set_seq_length"
                          /\ call.alloc.commands[i].index = Len(call.alloc.ds_before) + shortfall
                   /\ call.alloc.se_after =
                          call.alloc.se_before \o Repeat(NoneElement, shortfall)
                   /\ call.alloc.ret =
                          free \o [i \in 1..shortfall |-> Len(call.alloc.se_before) + i]
                   /\ Ascending(call.alloc.ret)

\* Three positions have been requested of a table of length 5 with one free
\* position: the table has length 7 and the free position, 6 and 7 are returned.
C10_Witness ==
    /\ call.alloc.length = 3
    /\ call.alloc.exc = None
    /\ Len(call.alloc.se_before) = 5
    /\ Len(FreePositions(call.alloc.se_before)) = 1
    /\ Len(device_sequence) = 7
    /\ Len(sequence_entries) = 7
    /\ call.alloc.ret = FreePositions(call.alloc.se_before) \o <<6, 7>>

\* C11: when upload() has returned, for every two consecutive sequencing
\* elements, written at positions p and q, the row written at p has an enabled
\* goto to q when q is not p + 1, and no goto at all when q is p + 1.
C11_BranchIffNotContiguous ==
    (call.op = "upload" /\ call.exc = None) =>
        \A i \in 1..(Len(programs[call.name].sequencing_elements) - 1) :
            /\ sequence_entries[programs[call.name].positions[i]]
                   = device_sequence[programs[call.name].positions[i]]
            /\ IF programs[call.name].positions[i + 1] # programs[call.name].positions[i] + 1
               THEN /\ device_sequence[programs[call.name].positions[i]].goto_state
                    /\ device_sequence[programs[call.name].positions[i]].goto_ind
                           = programs[call.name].positions[i + 1]
               ELSE /\ ~device_sequence[programs[call.name].positions[i]].goto_state
                    /\ device_sequence[programs[call.name].positions[i]].goto_ind = NoPosition

\* A program of three elements has been written to the positions 3, 4 and 7:
\* the row at 3 has no goto, the row at 4 an enabled goto to 7.
C11_Witness ==
    /\ call.op = "upload"
    /\ call.exc = None
    /\ programs[call.name].positions = <<3, 4, 7>>
    /\ Len(programs[call.name].sequencing_elements) = 3
    /\ ~device_sequence[3].goto_state
    /\ device_sequence[4].goto_state
    /\ device_sequence[4].goto_ind = 7

IdleRows(se, wf) ==
    {i \in DOMAIN se :
        /\ make_idle_waveform(idle_length) \in DOMAIN wf.by_data
        /\ se[i] = idle_sequence_element(wf.by_data[make_idle_waveform(idle_length)].name)}

\* C13: an initialize_idle_program() that returns right after a construction or
\* an initialize_idle_program() that returned leaves the idle position, the
\* mirror and the device table as they were, with one idle element in the
\* mirror, and issues neither new_waveform nor set_seq_element; and any
\* initialize_idle_program() that returns takes the name of the stored entry
\* when the idle payload is in the store and uploads it as idle_<length>
\* otherwise.
C13_IdleBootstrapIdempotent ==
    [][(call'.op = "initialize_idle_program" /\ call'.exc = None) =>
           /\ (call.op \in {"__init__", "initialize_idle_program"} /\ call.exc = None) =>
                  /\ idle_program' = idle_program
                  /\ sequence_entries' = sequence_entries
                  /\ device_sequence' = device_sequence
                  /\ Cardinality(IdleRows(sequence_entries', waveforms')) = 1
                  /\ Args(call'.log, "new_waveform", TRUE) = <<>>
                  /\ Args(call'.log, "set_seq_element", TRUE) = <<>>
           /\ IF make_idle_waveform(idle_length) \in DOMAIN waveforms.by_data
              THEN /\ Args(call'.log, "new_waveform", TRUE) = <<>>
                   /\ sequence_entries'[idle_program'] = idle_sequence_element(
                          waveforms.by_data[make_idle_waveform(idle_length)].name)
              ELSE /\ Args(call'.log, "new_waveform", TRUE)
                          = <<idle_pulse_name(idle_length)>>
                   /\ sequence_entries'[idle_program']
                          = idle_sequence_element(idle_pulse_name(idle_length))]_vars

\* An initialize_idle_program() has found the idle program in place: it has
\* returned without a device command, and the mirror holds one idle element, at
\* the idle position.
C13_Witness ==
    /\ call.op = "initialize_idle_program"
    /\ call.exc = None
    /\ call.log = <<>>
    /\ IdleRows(sequence_entries, waveforms) = {idle_program}

\* C14: in every state the public operations reach, the idle position is a
\* position of the mirror and the mirror holds the idle element there: the
\* stored idle waveform on every channel, looped infinitely.
C14_IdleProgramExists ==
    /\ idle_program \in DOMAIN sequence_entries
    /\ idle_program \in IdleRows(sequence_entries, waveforms)
    /\ sequence_entries[idle_program].loop_inf

C17_RunIssuesCommand ==
    call.op = "run" => call.log # <<>>

\* C18: when synchronize() has returned, the names in the store are the
\* device's waveform names, every stored entry has the payload and the length
\* the device reports for its name, and a further synchronize() gives the same
\* store and the same mirror.
C18_SynchronizeMatchesDevice ==
    (call.op = "synchronize" /\ call.exc = None) =>
        /\ DOMAIN waveforms.by_name = CatalogNames(device_waveforms)
        /\ \A i \in DOMAIN device_waveforms :
               /\ waveforms.by_name[device_waveforms[i].name].waveform
                      = device_waveforms[i].waveform
               /\ waveforms.by_name[device_waveforms[i].name].length
                      = device_waveforms[i].waveform.size
        /\ synchronize(State(-1, "t1")).wf = waveforms
        /\ synchronize(State(-1, "t1")).se = sequence_entries

\* synchronize() has returned on a device that holds several waveforms and a
\* sequence table with a row in use.
C18_Witness ==
    /\ call.op = "synchronize"
    /\ call.exc = None
    /\ Cardinality(DOMAIN waveforms.by_name) >= 2
    /\ \E i \in DOMAIN sequence_entries : sequence_entries[i] # NoneElement

\* The (element, channel) places of a compiled program.
Slots(tek_program) ==
    {jc \in (DOMAIN tek_program) \X (1..n_channels) :
        jc[2] \in DOMAIN tek_program[jc[1]].entries}

\* The payload an entry that is not a name stands for.
Payload(entry) ==
    IF IsInt(entry) THEN make_idle_waveform(entry.int) ELSE entry.waveform

\* The materialized payloads that two different elements of the program have.
SharedPayloads(tek_program) ==
    {w \in {tek_program[jc[1]].entries[jc[2]].waveform :
                jc \in {x \in Slots(tek_program) :
                           IsWaveform(tek_program[x[1]].entries[x[2]])}} :
        \E j1, j2 \in DOMAIN tek_program :
            /\ j1 # j2
            /\ PyWaveform(w) \in Range(tek_program[j1].entries)
            /\ PyWaveform(w) \in Range(tek_program[j2].entries)}

\* C19: an upload() under a new name of a program in which two elements have
\* the same materialized payload, not yet in the store, returns; the payload
\* has been written to the device once, the store holds one entry for it, and
\* every place of the registered sequencing elements that had the payload
\* holds that entry's name.
C19_SharedPayloadUploadedOnce ==
    (call.op = "upload" /\ ~call.registered) =>
        \A w \in SharedPayloads(call.tek_program) \ DOMAIN call.store_before.by_data :
            /\ call.exc = None
            /\ \E n \in DOMAIN waveforms.by_name :
                   /\ \A k \in DOMAIN waveforms.by_name :
                          waveforms.by_name[k].waveform = w <=> k = n
                   /\ Len(SelectSeq(Args(call.log, "new_waveform", TRUE),
                                    LAMBDA a : a = n)) = 1
                   /\ \A jc \in Slots(call.tek_program) :
                          call.tek_program[jc[1]].entries[jc[2]] = PyWaveform(w) =>
                              programs[call.name].sequencing_elements[jc[1]].entries[jc[2]]
                                  = PyStr(n)

\* C20: a _process_program() whose name references are all known returns; for
\* every entry that is a payload or an idle length, when the payload is in
\* by_data nothing is staged for it and the entry made is the stored entry's
\* name, a key of by_name; otherwise the payload is staged once and the entry
\* made is the staged name, idle_<length> for an idle length.
C20_StoredPayloadsReused ==
    (/\ call.op = "_process_program"
     /\ \A jc \in Slots(call.tek_program) :
            IsStr(call.tek_program[jc[1]].entries[jc[2]]) =>
                call.tek_program[jc[1]].entries[jc[2]].str \in DOMAIN waveforms.by_name) =>
        /\ call.exc = None
        /\ \A jc \in Slots(call.tek_program) :
               ~IsStr(call.tek_program[jc[1]].entries[jc[2]]) =>
                   LET entry == call.tek_program[jc[1]].entries[jc[2]]
                       made == call.processed.sequencing_elements[jc[1]].entries[jc[2]]
                       staged == SelectSeq(call.processed.waveforms_to_upload,
                                           LAMBDA x : x.data = Payload(entry))
                   IN  IF Payload(entry) \in DOMAIN waveforms.by_data
                       THEN /\ staged = <<>>
                            /\ made = PyStr(waveforms.by_data[Payload(entry)].name)
                            /\ waveforms.by_data[Payload(entry)].name
                                   \in DOMAIN waveforms.by_name
                       ELSE /\ Len(staged) = 1
                            /\ made = PyStr(staged[1].name)
                            /\ IsInt(entry) => staged[1].name = idle_pulse_name(entry.int)

\* C21: cleanup(), remove(name), _set_state() and upload() of a registered
\* name with force=True raise NotImplementedError, issue no mutating device
\* command and leave the registry, the store, the mirror and the armed program
\* as they were.
C21_UnimplementedRejected ==
    [][(\/ call'.op \in {"cleanup", "remove", "_set_state"}
        \/ call'.op = "upload" /\ call'.force /\ call'.name \in DOMAIN programs) =>
           /\ call'.exc = "NotImplementedError"
           /\ \A i \in DOMAIN call'.log : call'.log[i].cmd \notin Mutating
           /\ programs' = programs
           /\ waveforms' = waveforms
           /\ sequence_entries' = sequence_entries
           /\ armed_program' = armed_program]_vars

\* An upload() of a registered name with force=True has been rejected.
C21_Witness ==
    /\ call.op = "upload"
    /\ call.force
    /\ call.name \in DOMAIN programs
    /\ call.exc = "NotImplementedError"

\* The counts upload() requires of its arguments: two markers per channel and
\* one amplitude reported by the device per channel.
CountsAsRequired(channels, markers) ==
    Len(markers) = 2 * Len(channels) /\ Len(channels) = n_channels

\* C22: an upload() whose arguments violate a precondition (marker count not
\* two per channel, channel count different from the amplitude count) raises
\* before any device interaction: the call issues no command at all, and the
\* mirror, the store and the registry are as before.
C22_PreconditionBeforeDevice ==
    [][(call'.op = "upload" /\ ~CountsAsRequired(call'.channels, call'.markers)) =>
           /\ call'.exc # None
           /\ call'.log = <<>>
           /\ waveforms' = waveforms /\ sequence_entries' = sequence_entries
           /\ programs' = programs]_vars

\* C23: an upload() of a new name with k channels, 2k markers and a device
\* reporting k amplitudes passes the count preconditions: it does not fail on
\* an assertion.
C23_TwoMarkersPerChannelAccepted ==
    (/\ call.op = "upload" /\ ~call.registered /\ call.idle_before # NoPosition
     /\ CountsAsRequired(call.channels, call.markers)) =>
        call.exc # "AssertionError"

\* C30: compiling leaves the program object the caller passed in as it was;
\* the normalization passes act on the copy only.
C30_CallerProgramUnmodified ==
    call.op = "upload" => call.program.passed = call.passed_before

\* The sample count of the i-th leaf of the program parse_program was called with
SampleCount(i) == call.program.leaves[i].waveform.duration * call.sample_rate

\* The hardware channels parse_program was called with have a marker pair and
\* a converter each.
FullyConfigured ==
    /\ Len(call.markers) >= Len(call.channels)
    /\ Len(call.amplitudes) >= Len(call.channels)
    /\ Len(call.voltage_transformations) >= Len(call.channels)

\* C24: parse_program fails on the spot when the program's depth is not 1;
\* otherwise it returns one sequencing element per leaf, in program order
\* (the i-th element carries the i-th leaf's repetition count as loop_count and
\* entries of the i-th leaf's sample count), each with one entry per
\* configured hardware channel.
C24_OneElementPerLeaf ==
    (call.op = "parse_program" /\ FullyConfigured) =>
        IF call.program.depth # 1
        THEN call.exc = "AssertionError" /\ call.sequencing_elements = <<>>
        ELSE /\ call.exc = None
             /\ Len(call.sequencing_elements) = Len(call.program.leaves)
             /\ \A i \in DOMAIN call.sequencing_elements :
                    /\ call.sequencing_elements[i].loop_count =
                           call.program.leaves[i].repetition_count
                    /\ Len(call.sequencing_elements[i].entries) = Len(call.channels)
                    /\ \A k \in DOMAIN call.sequencing_elements[i].entries :
                           \/ call.sequencing_elements[i].entries[k] = PyInt(SampleCount(i))
                           \/ /\ IsWaveform(call.sequencing_elements[i].entries[k])
                              /\ call.sequencing_elements[i].entries[k].waveform.size =
                                     SampleCount(i)

C24_Witness ==
    /\ call.op = "parse_program" /\ FullyConfigured /\ call.program.depth = 1
    /\ Len(call.channels) = 2 /\ Len(call.program.leaves) = 2
    /\ call.program.leaves[1].repetition_count = 2
    /\ call.program.leaves[2].repetition_count = 3
    /\ call.sequencing_elements[1].loop_count = 2
    /\ IsWaveform(call.sequencing_elements[2].entries[1])
    /\ IsInt(call.sequencing_elements[2].entries[2])

\* The k-th hardware channel has neither an analog source nor a marker.
Sourceless(k) ==
    /\ k \in DOMAIN call.channels /\ k \in DOMAIN call.markers
    /\ call.channels[k] = None /\ call.markers[k] = <<None, None>>

\* C29: for a hardware channel without analog source and markers, every
\* leaf's entry is the integer sample count, not a payload, and the returned
\* required waveforms hold that length exactly once.
C29_IdleSentinelOnce ==
    (call.op = "parse_program" /\ call.exc = None /\ FullyConfigured) =>
        \A i \in DOMAIN call.sequencing_elements :
            \A k \in DOMAIN call.sequencing_elements[i].entries :
                Sourceless(k) =>
                    /\ call.sequencing_elements[i].entries[k] = PyInt(SampleCount(i))
                    /\ Cardinality({j \in DOMAIN call.waveforms :
                                       call.waveforms[j] = PyInt(SampleCount(i))}) = 1

C29_Witness ==
    /\ call.op = "parse_program" /\ call.exc = None /\ FullyConfigured
    /\ Len(call.program.leaves) = 2 /\ SampleCount(1) = SampleCount(2)
    /\ Sourceless(1) /\ Sourceless(2)
    /\ call.sequencing_elements[1].entries = <<PyInt(SampleCount(1)), PyInt(SampleCount(1))>>
    /\ call.sequencing_elements[2].entries = <<PyInt(SampleCount(1)), PyInt(SampleCount(1))>>
    /\ call.waveforms = <<PyInt(SampleCount(1))>>

C26_PositionsWithinTable ==
    /\ \A name \in DOMAIN programs :
           \A i \in DOMAIN programs[name].positions :
               programs[name].positions[i] \in 1..Len(sequence_entries)
    /\ idle_program # NoPosition => idle_program \in 1..Len(sequence_entries)
    /\ armed_program # NoArmedProgram => armed_program[2] \in 1..Len(sequence_entries)
    /\ \A i \in DOMAIN sequence_entries :
           (sequence_entries[i] # NoneElement /\ sequence_entries[i].goto_state) =>
               sequence_entries[i].goto_ind \in 1..Len(sequence_entries)

\* C27: the mirror of the sequence table is as long as the device's table
\* after every operation, failed or not.
C27_MirrorLengthIsDeviceLength ==
    Len(sequence_entries) = Len(device_sequence)

CitesUnknownName(tek_program, store) ==
    \E j \in DOMAIN tek_program : \E k \in DOMAIN tek_program[j].entries :
        /\ IsStr(tek_program[j].entries[k])
        /\ tek_program[j].entries[k].str \notin DOMAIN store.by_name

\* C31: _process_program issues no device command and leaves the store, the
\* mirror, the registry and the device as they are; an upload() of a program
\* citing a waveform name the store lacks fails without a waveform written to
\* the device.
C31_ProcessProgramChangesNothing ==
    [][/\ call'.op = "_process_program" =>
              /\ call'.log = <<>>
              /\ UNCHANGED <<device_waveforms, device_sequence, waveforms,
                             sequence_entries, programs, idle_program, armed_program>>
       /\ (/\ call'.op = "upload" /\ ~call'.registered /\ idle_program # NoPosition
           /\ CitesUnknownName(call'.tek_program, waveforms)) =>
              /\ call'.exc # None
              /\ \A i \in DOMAIN call'.log : call'.log[i].cmd \notin Mutating
              /\ UNCHANGED <<device_waveforms, device_sequence, waveforms,
                             sequence_entries, programs>>]_vars

C31_Witness ==
    /\ call.op = "upload" /\ ~call.registered /\ call.exc = "KeyError"
    /\ call.tek_program = <<LeafA, LeafU>>
    /\ CitesUnknownName(call.tek_program, call.store_before)
    /\ make_idle_waveform(250) \notin DOMAIN call.store_before.by_data

ReferredName(entry) == IF IsStr(entry) THEN entry.str ELSE entry.entry.name

\* The names the device commands of a log have put on the device
Staged(log) == {log[i].arg : i \in {j \in DOMAIN log : log[j].cmd = "new_waveform" /\ log[j].ok}}

\* The positions of the commands cmd in a log
Issued(log, cmd) == {i \in DOMAIN log : log[i].cmd = cmd}

\* C33: within an upload(), every new_waveform precedes the set_seq_length,
\* which precedes every set_seq_element; the name enters the registry only
\* when every row of the program has been written; and a row written by the
\* call refers only to waveforms that were on the device or staged by the call.
C33_UploadOrder ==
    [][call'.op = "upload" =>
           /\ \A i \in Issued(call'.log, "new_waveform") :
                  \A j \in Issued(call'.log, "set_seq_length")
                           \cup Issued(call'.log, "set_seq_element") : i < j
           /\ \A i \in Issued(call'.log, "set_seq_length") :
                  \A j \in Issued(call'.log, "set_seq_element") : i < j
           /\ call'.name \in DOMAIN programs' \ DOMAIN programs =>
                  /\ \A j \in Issued(call'.log, "set_seq_element") : call'.log[j].ok
                  /\ Cardinality(Issued(call'.log, "set_seq_element")) =
                         Len(programs'[call'.name].sequencing_elements)
           /\ \A i \in DOMAIN sequence_entries' :
                  (/\ sequence_entries'[i] # NoneElement
                   /\ i \in DOMAIN sequence_entries => sequence_entries'[i] # sequence_entries[i]) =>
                      \A c \in DOMAIN sequence_entries'[i].entries :
                          ReferredName(sequence_entries'[i].entries[c]) \in
                              CatalogNames(device_waveforms) \cup Staged(call'.log)]_vars

C33_Witness ==
    /\ call.op = "upload" /\ call.exc = None /\ call.name \in DOMAIN programs
    /\ Cardinality(Issued(call.log, "new_waveform")) = 2
    /\ Cardinality(Issued(call.log, "set_seq_length")) = 1
    /\ Cardinality(Issued(call.log, "set_seq_element")) = 2

\* C34: when clear() has returned, the mirror and the device's table are
\* empty, the store and the device's catalog are empty, the registry is empty
\* and no program is armed; 'SEQ:LENG 0' was written before 'WLIS:WAV:DEL ALL'.
C34_ClearEmptiesEverything ==
    (call.op = "clear" /\ call.exc = None) =>
        /\ sequence_entries = <<>> /\ device_sequence = <<>>
        /\ device_waveforms = <<>> /\ waveforms = WaveformStorage(<<>>)
        /\ programs = EmptyDict /\ armed_program = NoArmedProgram
        /\ \E i, j \in DOMAIN call.log :
               /\ i < j
               /\ call.log[i].cmd = "write" /\ call.log[i].arg = "SEQ:LENG 0"
               /\ call.log[j].cmd = "write" /\ call.log[j].arg = "WLIS:WAV:DEL ALL"
               /\ \A k \in DOMAIN call.log : call.log[k].cmd = "write" => k \in {i, j}

C34_Witness ==
    /\ call.op = "clear" /\ call.exc = None
    /\ Cardinality(Issued(call.log, "write")) = 2
    /\ programs = EmptyDict /\ idle_program = NoPosition

C36_UploadWritesFreePositionsOnly ==
    [][call'.op = "upload" =>
           \A i \in DOMAIN sequence_entries :
               sequence_entries[i] # NoneElement =>
                   /\ sequence_entries'[i] = sequence_entries[i]
                   /\ i \in DOMAIN device_sequence =>
                          device_sequence'[i] = device_sequence[i]]_vars

C36_Witness ==
    /\ call.op = "upload" /\ call.exc = None /\ call.name \in DOMAIN programs
    /\ Cardinality(DOMAIN programs) = 2
    /\ idle_program = 2
    /\ \A i \in DOMAIN sequence_entries : sequence_entries[i] # NoneElement

OwnPayload(i, k) ==
    bin_waveform(call.program.leaves[i].waveform, SampleCount(i), call.channels[k],
                 call.markers[k][1], call.markers[k][2],
                 make_binary_converter(call.amplitudes[k], call.voltage_transformations[k]))

\* C38: for every leaf and every hardware channel with a source, the entry of
\* the sequencing element is the payload quantized from that channel's own
\* samples with its own amplitude and voltage transformation, with its own two
\* marker streams.
C38_PayloadIsChannelsOwn ==
    (call.op = "parse_program" /\ call.exc = None /\ FullyConfigured) =>
        \A i \in DOMAIN call.sequencing_elements :
            \A k \in DOMAIN call.sequencing_elements[i].entries :
                ~Sourceless(k) =>
                    call.sequencing_elements[i].entries[k] = PyWaveform(OwnPayload(i, k))

=============================================================================
